---- MODULE Spec2Model ----
(***************************************************************************)
(* A model of the nerftank controller: the turret firing state machine     *)
(* (src/src/turret.py) running as a cooperative task next to the calls     *)
(* arm(), disarm(), fire() and move(), and the TB6612FNG motor driver      *)
(* (src/src/tb6612fng.py).                                                 *)
(*                                                                         *)
(* The scheduler is cooperative: a task runs from one await to the next    *)
(* without interruption.  Every action below is therefore one such run:    *)
(* a synchronous call, or the part of the turret loop between two          *)
(* suspension points.                                                      *)
(***************************************************************************)
EXTENDS Integers, Sequences, FiniteSets, TLC

VARIABLES
    \* ---- Turret (turret.py) ----
    state,        \* self._state
    armed,        \* self._armed   (asyncio.Event, TRUE = set)
    firing,       \* self._firing  (asyncio.Event, TRUE = set)
    ammo,         \* self._ammo
    fire_duty,    \* last duty written to self.fire_motor (flywheel)
    trigger_us,   \* self.trigger_servo._current_us
    pan_us,       \* self.pan_servo._current_us
    tilt_us,      \* self.tilt_servo._current_us
    pc,           \* where the task run() is suspended
    \* ---- history of the turret, read by the properties only ----
    shots,        \* number of FIRING bodies that pulled the trigger
    cooled,       \* a COOLDOWN body has run since the last FIRING body
    req_ready,    \* fire() was called in READY since the last FIRING body
    seq,          \* values of _state so far, <<>> once disarm() was called
    cancelled,    \* the task of run() has been cancelled
    \* ---- Motor (tb6612fng.py) ----
    in1,          \* self.in1 pin level
    in2,          \* self.in2 pin level
    duty,         \* self.pwm duty
    has_stby,     \* self.stby is a Pin (not None)
    stby,         \* self.stby pin level (0 and never written without the pin)
    offset,       \* self.offset, as offset / OffDen
    last_op,      \* the last motor call and its argument
    \* ---- Robot (robot.py) ----
    left_motors,  \* self.left_motors: the outputs of each motor
    right_motors, \* self.right_motors: the outputs of each motor
    rcall,        \* the last call of a Robot method, its arguments and result
    \* ---- Servo (servo.py) ----
    s_min_us,     \* self._min_us
    s_max_us,     \* self._max_us
    current_us,   \* self._current_us (NoValue for None)
    current_angle, \* self._current_angle (NoValue for None)
    s_pwm,        \* the last value given to self.pwm.duty_u16
    s_call        \* the last call of a Servo method and its arguments

turretVars == <<state, armed, firing, ammo, fire_duty, trigger_us, pan_us, tilt_us, pc>>
histVars == <<shots, cooled, req_ready, seq, cancelled>>
motorVars == <<in1, in2, duty, has_stby, stby, offset, last_op>>
robotVars == <<left_motors, right_motors, rcall>>
servoVars == <<s_min_us, s_max_us, current_us, current_angle, s_pwm, s_call>>
extVars == <<robotVars, servoVars>>
vars == <<turretVars, histVars, motorVars, extVars>>

\* ------------------------------------------------------------------ bounds
\* move() is called with pan, tilt in -MaxStick .. MaxStick (the range -1 .. 1
\* and values outside it).
MaxStick == 2
\* seq records at most MaxHist values.
MaxHist == 8
\* Motor offsets are offset / OffDen for offset in 0 .. OffDen - 1.
OffDen == 4

\* ------------------------------------------------------- program constants
PAN_MIN == 500
PAN_MAX == 2500
TILT_MIN == 1250
TILT_MAX == 2000
TRIGGER_MIN == 1400
TRIGGER_MAX == 2500
\* Servo.__init__ defaults: every servo of the turret has this window.
SERVO_MIN_US == 500
SERVO_MAX_US == 2500
INITIAL_AMMO == 5
SPIN_DUTY == 32768
PWM_MAX == 65535
SPEED_MAX == 1023

TurretStates == {"STANDBY", "SPIN_UP", "READY", "FIRING", "COOLDOWN", "EMPTY"}

\* ------------------------------------------------------------------ helpers
\* utils.map_range, for arguments whose quotient is exact.
map_range(x, in_min, in_max, out_min, out_max) ==
    ((x - in_min) * (out_max - out_min)) \div (in_max - in_min) + out_min

\* Servo.write_microseconds: the value stored in _current_us.
write_microseconds_nomax(us, min_us, max_us) ==
    IF us < min_us THEN min_us ELSE us

write_microseconds(us, min_us, max_us) ==
    IF us < min_us THEN min_us
    ELSE IF us > max_us THEN max_us
    ELSE us

\* ------------------------------------------------------------------- turret
\* Turret._get_next_state as a function of (_state, _ammo, _armed, _firing);
\* "RAISE" stands for the ValueError of the last branch.
get_next_state_nopriority(s, am, ar, fr) ==
    IF ~ar THEN "STANDBY"
    ELSE IF am < 1 THEN "EMPTY"
    ELSE IF s = "STANDBY" THEN "SPIN_UP"
    ELSE IF s = "SPIN_UP" THEN "READY"
    ELSE IF s = "READY" THEN (IF fr THEN "FIRING" ELSE "READY")
    ELSE IF s = "FIRING" THEN "COOLDOWN"
    ELSE IF s = "COOLDOWN" THEN "READY"
    ELSE "RAISE"

get_next_state_noammo(s, am, ar, fr) ==
    IF ~ar THEN "STANDBY"
    ELSE IF s = "STANDBY" THEN "SPIN_UP"
    ELSE IF s = "SPIN_UP" THEN "READY"
    ELSE IF s = "READY" THEN (IF fr THEN "FIRING" ELSE "READY")
    ELSE IF s = "FIRING" THEN "COOLDOWN"
    ELSE IF s = "COOLDOWN" THEN "READY"
    ELSE "RAISE"

get_next_state_nodisarm(s, am, ar, fr) ==
    IF am < 1 THEN "EMPTY"
    ELSE IF s = "STANDBY" THEN (IF ar THEN "SPIN_UP" ELSE "STANDBY")
    ELSE IF s = "SPIN_UP" THEN "READY"
    ELSE IF s = "READY" THEN (IF fr THEN "FIRING" ELSE "READY")
    ELSE IF s = "FIRING" THEN "COOLDOWN"
    ELSE IF s = "COOLDOWN" THEN "READY"
    ELSE "RAISE"

get_next_state_skipready(s, am, ar, fr) ==
    IF am < 1 THEN "EMPTY"
    ELSE IF ~ar THEN "STANDBY"
    ELSE IF s = "STANDBY" THEN "SPIN_UP"
    ELSE IF s = "SPIN_UP" THEN "READY"
    ELSE IF s = "READY" THEN (IF fr THEN "FIRING" ELSE "READY")
    ELSE IF s = "FIRING" THEN "COOLDOWN"
    ELSE IF s = "COOLDOWN" THEN (IF fr THEN "FIRING" ELSE "READY")
    ELSE "RAISE"

get_next_state_nospinup(s, am, ar, fr) ==
    IF am < 1 THEN "EMPTY"
    ELSE IF ~ar THEN "STANDBY"
    ELSE IF s = "STANDBY" THEN "READY"
    ELSE IF s = "SPIN_UP" THEN "READY"
    ELSE IF s = "READY" THEN (IF fr THEN "FIRING" ELSE "READY")
    ELSE IF s = "FIRING" THEN "COOLDOWN"
    ELSE IF s = "COOLDOWN" THEN "READY"
    ELSE "RAISE"

get_next_state_ignorefire(s, am, ar, fr) ==
    IF am < 1 THEN "EMPTY"
    ELSE IF ~ar THEN "STANDBY"
    ELSE IF s = "STANDBY" THEN "SPIN_UP"
    ELSE IF s = "SPIN_UP" THEN "READY"
    ELSE IF s = "READY" THEN "READY"
    ELSE IF s = "FIRING" THEN "COOLDOWN"
    ELSE IF s = "COOLDOWN" THEN "READY"
    ELSE "RAISE"

get_next_state(s, am, ar, fr) ==
    IF am < 1 THEN "EMPTY"
    ELSE IF ~ar THEN "STANDBY"
    ELSE IF s = "STANDBY" THEN "SPIN_UP"
    ELSE IF s = "SPIN_UP" THEN "READY"
    ELSE IF s = "READY" THEN (IF fr THEN "FIRING" ELSE "READY")
    ELSE IF s = "FIRING" THEN "COOLDOWN"
    ELSE IF s = "COOLDOWN" THEN "READY"
    ELSE "RAISE"

\* The except clauses of Turret.run: where the loop goes on an exception.
except_pc_break(exc) == "stopped"

except_pc(exc) ==
    IF exc = "CancelledError" THEN "stopped" ELSE "backoff"

\* Turret._execute_state_behaviour for the state s just decided, up to its
\* first suspension point (or to the sleep_ms(0) of run when it has none).
execute_state_behaviour_double(s) ==
    CASE s = "STANDBY" ->
            /\ fire_duty' = 0
            /\ pc' = IF armed THEN "yield" ELSE "wait"
            /\ UNCHANGED <<trigger_us, ammo, firing>>
      [] s = "SPIN_UP" ->
            /\ fire_duty' = SPIN_DUTY
            /\ pc' = "yield"
            /\ UNCHANGED <<trigger_us, ammo, firing>>
      [] s = "READY" ->
            /\ pc' = "yield"
            /\ UNCHANGED <<fire_duty, trigger_us, ammo, firing>>
      [] s = "FIRING" ->
            /\ trigger_us' = write_microseconds(TRIGGER_MIN, SERVO_MIN_US, SERVO_MAX_US)
            /\ ammo' = ammo - 2
            /\ firing' = FALSE
            /\ pc' = "dwell"
            /\ UNCHANGED fire_duty
      [] s = "COOLDOWN" ->
            /\ trigger_us' = write_microseconds(TRIGGER_MAX, SERVO_MIN_US, SERVO_MAX_US)
            /\ pc' = "dwell"
            /\ UNCHANGED <<fire_duty, ammo, firing>>
      [] s = "EMPTY" ->
            /\ fire_duty' = 0
            /\ pc' = "yield"
            /\ UNCHANGED <<trigger_us, ammo, firing>>

execute_state_behaviour_clearlatch(s) ==
    CASE s = "STANDBY" ->
            /\ fire_duty' = 0
            /\ pc' = IF armed THEN "yield" ELSE "wait"
            /\ firing' = FALSE
            /\ UNCHANGED <<trigger_us, ammo>>
      [] s = "SPIN_UP" ->
            /\ fire_duty' = SPIN_DUTY
            /\ pc' = "yield"
            /\ UNCHANGED <<trigger_us, ammo, firing>>
      [] s = "READY" ->
            /\ pc' = "yield"
            /\ UNCHANGED <<fire_duty, trigger_us, ammo, firing>>
      [] s = "FIRING" ->
            /\ trigger_us' = write_microseconds(TRIGGER_MIN, SERVO_MIN_US, SERVO_MAX_US)
            /\ ammo' = ammo - 1
            /\ firing' = FALSE
            /\ pc' = "dwell"
            /\ UNCHANGED fire_duty
      [] s = "COOLDOWN" ->
            /\ trigger_us' = write_microseconds(TRIGGER_MAX, SERVO_MIN_US, SERVO_MAX_US)
            /\ pc' = "dwell"
            /\ UNCHANGED <<fire_duty, ammo, firing>>
      [] s = "EMPTY" ->
            /\ fire_duty' = 0
            /\ pc' = "yield"
            /\ UNCHANGED <<trigger_us, ammo, firing>>

execute_state_behaviour(s) ==
    CASE s = "STANDBY" ->
            /\ fire_duty' = 0
            /\ pc' = IF armed THEN "yield" ELSE "wait"
            /\ UNCHANGED <<trigger_us, ammo, firing>>
      [] s = "SPIN_UP" ->
            /\ fire_duty' = SPIN_DUTY
            /\ pc' = "yield"
            /\ UNCHANGED <<trigger_us, ammo, firing>>
      [] s = "READY" ->
            /\ pc' = "yield"
            /\ UNCHANGED <<fire_duty, trigger_us, ammo, firing>>
      [] s = "FIRING" ->
            /\ trigger_us' = write_microseconds(TRIGGER_MIN, SERVO_MIN_US, SERVO_MAX_US)
            /\ ammo' = ammo - 1
            /\ firing' = FALSE
            /\ pc' = "dwell"
            /\ UNCHANGED fire_duty
      [] s = "COOLDOWN" ->
            /\ trigger_us' = write_microseconds(TRIGGER_MAX, SERVO_MIN_US, SERVO_MAX_US)
            /\ pc' = "dwell"
            /\ UNCHANGED <<fire_duty, ammo, firing>>
      [] s = "EMPTY" ->
            /\ fire_duty' = 0
            /\ pc' = "yield"
            /\ UNCHANGED <<trigger_us, ammo, firing>>

\* The history variables after a tick that decided state s and ran its body.
TickHistory(s) ==
    /\ shots' = IF s = "FIRING" THEN shots + 1 ELSE shots
    /\ cooled' = IF s = "FIRING" THEN FALSE
                 ELSE IF s = "COOLDOWN" THEN TRUE
                 ELSE cooled
    /\ req_ready' = IF s = "FIRING" THEN FALSE ELSE req_ready
    /\ seq' = IF seq # <<>> /\ s # state /\ Len(seq) < MaxHist
              THEN Append(seq, s)
              ELSE seq
    /\ cancelled' = cancelled

\* One iteration of the loop of Turret.run, from its top to the first
\* suspension point: _get_next_state(), then the body of the new state.
Tick ==
    /\ pc = "eval"
    /\ LET s == get_next_state(state, ammo, armed, firing) IN
         IF s = "RAISE"
         THEN /\ pc' = except_pc("ValueError")
              /\ UNCHANGED <<state, armed, firing, ammo, fire_duty, trigger_us>>
              /\ UNCHANGED histVars
         ELSE /\ state' = s
              /\ execute_state_behaviour(s)
              /\ TickHistory(s)
              /\ UNCHANGED armed
    /\ UNCHANGED <<pan_us, tilt_us, motorVars, extVars>>

\* await self._armed.wait() returns: the task was woken by arm().
ArmedWaitReturn ==
    /\ pc = "woken"
    /\ pc' = "yield"
    /\ UNCHANGED <<state, armed, firing, ammo, fire_duty, trigger_us, pan_us, tilt_us>>
    /\ UNCHANGED <<histVars, motorVars, extVars>>

\* await asyncio.sleep_ms(100) of the FIRING and COOLDOWN bodies returns.
DwellDone ==
    /\ pc = "dwell"
    /\ pc' = "yield"
    /\ UNCHANGED <<state, armed, firing, ammo, fire_duty, trigger_us, pan_us, tilt_us>>
    /\ UNCHANGED <<histVars, motorVars, extVars>>

\* await asyncio.sleep_ms(0) of run returns: back to the top of the loop.
YieldDone ==
    /\ pc = "yield"
    /\ pc' = "eval"
    /\ UNCHANGED <<state, armed, firing, ammo, fire_duty, trigger_us, pan_us, tilt_us>>
    /\ UNCHANGED <<histVars, motorVars, extVars>>

\* Turret.arm: Event.set() also schedules a task waiting on the event.
Arm ==
    /\ armed' = TRUE
    /\ pc' = IF pc = "wait" THEN "woken" ELSE pc
    /\ UNCHANGED <<state, firing, ammo, fire_duty, trigger_us, pan_us, tilt_us>>
    /\ UNCHANGED <<histVars, motorVars, extVars>>

\* Turret.disarm
Disarm ==
    /\ armed' = FALSE
    /\ seq' = <<>>
    /\ UNCHANGED <<state, firing, ammo, fire_duty, trigger_us, pan_us, tilt_us, pc>>
    /\ UNCHANGED <<shots, cooled, req_ready, cancelled, motorVars, extVars>>

\* Turret.fire
Fire ==
    /\ firing' = TRUE
    /\ req_ready' = (req_ready \/ state = "READY")
    /\ UNCHANGED <<state, armed, ammo, fire_duty, trigger_us, pan_us, tilt_us, pc>>
    /\ UNCHANGED <<shots, cooled, seq, cancelled, motorVars, extVars>>

\* Turret.move(pan, tilt)
Move_clearlatch ==
    \E pan \in -MaxStick .. MaxStick, tilt \in -MaxStick .. MaxStick :
        /\ pan_us' = write_microseconds(map_range(pan, -1, 1, PAN_MIN, PAN_MAX),
                                        SERVO_MIN_US, SERVO_MAX_US)
        /\ tilt_us' = write_microseconds(map_range(tilt, -1, 1, TILT_MIN, TILT_MAX),
                                         SERVO_MIN_US, SERVO_MAX_US)
        /\ firing' = FALSE
        /\ UNCHANGED <<state, armed, ammo, fire_duty, trigger_us, pc>>
        /\ UNCHANGED <<histVars, motorVars, extVars>>

Move ==
    \E pan \in -MaxStick .. MaxStick, tilt \in -MaxStick .. MaxStick :
        /\ pan_us' = write_microseconds(map_range(pan, -1, 1, PAN_MIN, PAN_MAX),
                                        SERVO_MIN_US, SERVO_MAX_US)
        /\ tilt_us' = write_microseconds(map_range(tilt, -1, 1, TILT_MIN, TILT_MAX),
                                         SERVO_MIN_US, SERVO_MAX_US)
        /\ UNCHANGED <<state, armed, firing, ammo, fire_duty, trigger_us, pc>>
        /\ UNCHANGED <<histVars, motorVars, extVars>>

\* An actuator write of the body raises: fire_motor.duty_u16 (STANDBY, SPIN_UP,
\* EMPTY) or trigger_servo.write_microseconds (FIRING, COOLDOWN).  _state is
\* already assigned, the write and the rest of the body are lost, and run
\* catches the exception.
TickFault ==
    /\ pc = "eval"
    /\ LET s == get_next_state(state, ammo, armed, firing) IN
         /\ s \in {"STANDBY", "SPIN_UP", "FIRING", "COOLDOWN", "EMPTY"}
         /\ state' = s
         /\ seq' = IF seq # <<>> /\ s # state /\ Len(seq) < MaxHist
                   THEN Append(seq, s)
                   ELSE seq
    /\ pc' = except_pc("Exception")
    /\ UNCHANGED <<armed, firing, ammo, fire_duty, trigger_us, pan_us, tilt_us>>
    /\ UNCHANGED <<shots, cooled, req_ready, cancelled, motorVars, extVars>>

\* await asyncio.sleep(1) of the except clause returns: back to the loop top.
BackoffDone ==
    /\ pc = "backoff"
    /\ pc' = "eval"
    /\ UNCHANGED <<state, armed, firing, ammo, fire_duty, trigger_us, pan_us, tilt_us>>
    /\ UNCHANGED <<histVars, motorVars, extVars>>

\* The task of run() is cancelled while it is suspended (or scheduled and not
\* yet resumed, pc = "eval"): CancelledError is raised at its await.  Inside
\* the try it is caught by the first except clause, which breaks out of the
\* loop; at the sleep(1) of the second except clause it is outside the try
\* and leaves run() uncaught.  Either way run() has ended.
Cancel ==
    /\ pc \in {"eval", "wait", "woken", "dwell", "yield", "backoff"}
    /\ pc' = IF pc = "backoff" THEN "stopped" ELSE except_pc("CancelledError")
    /\ cancelled' = TRUE
    /\ UNCHANGED <<state, armed, firing, ammo, fire_duty, trigger_us, pan_us, tilt_us>>
    /\ UNCHANGED <<shots, cooled, req_ready, seq, motorVars, extVars>>

\* Turret.__init__: the servos are centred, the trigger withdrawn, and the
\* task run() is created (it starts at the top of its loop).  The flywheel
\* PWM has not been written yet.
TurretInit ==
    /\ state = "STANDBY"
    /\ armed = FALSE
    /\ firing = FALSE
    /\ ammo = INITIAL_AMMO
    /\ fire_duty = 0
    /\ trigger_us = write_microseconds(TRIGGER_MAX, SERVO_MIN_US, SERVO_MAX_US)
    /\ pan_us = write_microseconds((PAN_MIN + PAN_MAX) \div 2, SERVO_MIN_US, SERVO_MAX_US)
    /\ tilt_us = write_microseconds((TILT_MIN + PAN_MAX) \div 2, SERVO_MIN_US, SERVO_MAX_US)
    /\ pc = "eval"
    /\ shots = 0
    /\ cooled = TRUE
    /\ req_ready = FALSE
    /\ seq = <<"STANDBY">>
    /\ cancelled = FALSE

\* -------------------------------------------------------------------- motor
\* The speeds the motor calls are given: below 0, in 0 .. SPEED_MAX, above it.
Speeds == {-1023, -5, -1, 0, 1, 2, 341, 511, 512, 682, 1022, 1023, 1024, 1534, 2000}

Max(a, b) == IF a > b THEN a ELSE b
Min(a, b) == IF a < b THEN a ELSE b

\* Motor._set_speed with self.offset = off / OffDen.  The float product
\* (speed / 1023) * 65535 * (1 - offset) is truncated by int(); for the
\* offsets k/4 it equals the exact quotient below.
set_speed_noclamp(speed, off) ==
    (speed * PWM_MAX * (OffDen - off)) \div (SPEED_MAX * OffDen)

set_speed(speed, off) ==
    LET s == Max(0, Min(SPEED_MAX, speed)) IN
    (s * PWM_MAX * (OffDen - off)) \div (SPEED_MAX * OffDen)

\* Motor._set_direction(forward, speed)
set_direction_samepins(forward, speed) ==
    /\ in1' = (IF forward THEN 1 ELSE 0)
    /\ in2' = (IF forward THEN 1 ELSE 0)
    /\ duty' = set_speed(speed, offset)
    /\ stby' = IF has_stby THEN 1 ELSE stby

set_direction(forward, speed) ==
    /\ in1' = (IF forward THEN 1 ELSE 0)
    /\ in2' = (IF ~forward THEN 1 ELSE 0)
    /\ duty' = set_speed(speed, offset)
    /\ stby' = IF has_stby THEN 1 ELSE stby

\* Motor.forward(speed)
forward ==
    \E speed \in Speeds :
        /\ set_direction(TRUE, speed)
        /\ last_op' = [op |-> "forward", speed |-> speed]
        /\ UNCHANGED <<has_stby, offset, turretVars, histVars, extVars>>

\* Motor.reverse(speed)
reverse ==
    \E speed \in Speeds :
        /\ set_direction(FALSE, speed)
        /\ last_op' = [op |-> "reverse", speed |-> speed]
        /\ UNCHANGED <<has_stby, offset, turretVars, histVars, extVars>>

\* Motor.stop
stop ==
    /\ in1' = 0
    /\ in2' = 0
    /\ duty' = 0
    /\ stby' = IF has_stby THEN 0 ELSE stby
    /\ last_op' = [op |-> "stop", speed |-> 0]
    /\ UNCHANGED <<has_stby, offset, turretVars, histVars, extVars>>

\* Motor.brake
brake ==
    /\ in1' = 1
    /\ in2' = 1
    /\ duty' = 0
    /\ last_op' = [op |-> "brake", speed |-> 0]
    /\ UNCHANGED <<has_stby, stby, offset, turretVars, histVars, extVars>>

\* Motor.__init__(in1, in2, pwm, stby, offset): ends with self.stop().
MotorInit(with_stby, off) ==
    /\ in1 = 0
    /\ in2 = 0
    /\ duty = 0
    /\ has_stby = with_stby
    /\ stby = 0
    /\ offset = off
    /\ last_op = [op |-> "stop", speed |-> 0]

\* -------------------------------------------------------------------- robot
\* The robot's arithmetic is in floats.  The model computes the exact
\* rational value; where int() truncates a float product whose exact value is
\* an integer k > 0 the float may lie just below it, so both k and k - 1 are
\* outcomes (a non-integer exact value is far from the next integer compared
\* with the rounding error, and 0.0 and 1.0 are exact).
Abs(x) == IF x < 0 THEN -x ELSE x

RECURSIVE GCD(_, _)
GCD(a, b) == IF b = 0 THEN a ELSE GCD(b, a % b)

\* int(x) for a float x >= 0 whose exact value is num / den.
IntOf(num, den, exact) ==
    IF num % den = 0 /\ num > 0 /\ ~exact
    THEN {num \div den, num \div den - 1}
    ELSE {num \div den}

\* int(x) for a float x >= 0 whose exact value is the square root of num / den.
IntOfRoot(num, den, top, exact) ==
    LET r == CHOOSE k \in 0 .. top :
                 k * k * den <= num /\ (k + 1) * (k + 1) * den > num
    IN IF r * r * den = num /\ num > 0 /\ ~exact THEN {r, r - 1} ELSE {r}

\* main.py builds two motors per side.
NumPerSide == 2
\* Robot.update: ramp_cubic(..., deadzone=10), and max_value=100 by default.
DEADZONE == 10
MAX_VALUE == 100

\* Robot.map, in hundredths (the quotient is exact for the ranges of drive).
robot_map(x, in_min, in_max, out_min, out_max) ==
    ((x - in_min) * (out_max - out_min) * 100) \div (in_max - in_min) + out_min * 100

\* Robot._apply_deadzone: the value returned, as the fraction num / den.
apply_deadzone_nosign(value, deadzone, max_value) ==
    IF Abs(value) < deadzone THEN [num |-> 0, den |-> 1]
    ELSE LET den == max_value - deadzone
             scaled == (Abs(value) - deadzone) * max_value
         IN [num |-> Max(0, Min(max_value * den, scaled)), den |-> den]

apply_deadzone(value, deadzone, max_value) ==
    IF Abs(value) < deadzone THEN [num |-> 0, den |-> 1]
    ELSE LET sign == IF value > 0 THEN 1 ELSE -1
             den == max_value - deadzone
             scaled == (Abs(value) - deadzone) * max_value
         IN [num |-> sign * Max(0, Min(max_value * den, scaled)), den |-> den]

\* Robot.ramp_cubic: the values int(ramped * max_value) may take.  normalized
\* = value / max_value is p / q below (num is a multiple of max_value).
ramp_cubic_nodeadzone(value, deadzone, max_value) ==
    LET sign == IF value >= 0 THEN 1 ELSE -1
        p == Abs(value)
        q == max_value
    IN {sign * k : k \in IntOf(p * p * p * max_value, q * q * q, p = q)}

ramp_cubic(value, deadzone, max_value) ==
    IF Abs(value) < deadzone THEN {0}
    ELSE LET v == apply_deadzone(value, deadzone, max_value)
             sign == IF v.num >= 0 THEN 1 ELSE -1
             p == Abs(v.num) \div max_value
             q == v.den
         IN {sign * k : k \in IntOf(p * p * p * max_value, q * q * q, p = q)}

\* Robot.ramp_quadratic
ramp_quadratic(value, deadzone, max_value) ==
    IF Abs(value) < deadzone THEN {0}
    ELSE LET v == apply_deadzone(value, deadzone, max_value)
             sign == IF v.num >= 0 THEN 1 ELSE -1
             p == Abs(v.num) \div max_value
             q == v.den
         IN {sign * k : k \in IntOf(p * p * max_value, q * q, p = q)}

\* Robot.ramp_exponential with the default exponent 1.5:
\* pow(p / q, 1.5) * max_value is the square root of max_value^2 * p^3 / q^3
\* (p / q is reduced first to stay within TLC's integers).
ramp_exponential(value, deadzone, max_value) ==
    IF Abs(value) < deadzone THEN {0}
    ELSE LET v == apply_deadzone(value, deadzone, max_value)
             sign == IF v.num >= 0 THEN 1 ELSE -1
             p0 == Abs(v.num) \div max_value
             g == GCD(p0, v.den)
             p == p0 \div g
             q == v.den \div g
         IN {sign * k : k \in IntOfRoot(max_value * max_value * p * p * p, q * q * q,
                                         max_value, p = q)}

\* Motor._set_speed for a speed given in hundredths and offset 0 (the motors
\* of Robot): speed / 1023 * 65535, with 65535 and 102300 both divided by
\* their common factor 15 to stay within TLC's integers.
set_speed_c(speed_c) ==
    LET s == Max(0, Min(SPEED_MAX * 100, speed_c))
    IN IntOf(s * (PWM_MAX \div 15), (SPEED_MAX * 100) \div 15, s = SPEED_MAX * 100)

\* The outputs a motor of Robot may show after the branch of drive for the
\* signed side speed v (hundredths): forward(v), reverse(abs(v)) or stop().
side_command(v) ==
    IF v > 0
    THEN {[op |-> "forward", in1 |-> 1, in2 |-> 0, speed |-> v, duty |-> d] :
             d \in set_speed_c(v)}
    ELSE IF v < 0
    THEN {[op |-> "reverse", in1 |-> 0, in2 |-> 1, speed |-> -v, duty |-> d] :
             d \in set_speed_c(-v)}
    ELSE {[op |-> "stop", in1 |-> 0, in2 |-> 0, speed |-> 0, duty |-> 0]}

\* Robot.drive, lines 98-102: left_speed and right_speed, in hundredths.
drive_sides_swapped(speed, turn) ==
    LET s == robot_map(speed, -100, 100, -1023, 1023)
        t == robot_map(turn, -100, 100, -511, 511)
    IN <<s - t, s + t>>

drive_sides_bias(speed, turn) ==
    LET s == robot_map(speed, -100, 100, -1023, 1023)
        t == robot_map(turn, -100, 100, -511, 512)
    IN <<s + t, s - t>>

drive_sides(speed, turn) ==
    LET s == robot_map(speed, -100, 100, -1023, 1023)
        t == robot_map(turn, -100, 100, -511, 511)
    IN <<s + t, s - t>>

\* Robot.drive(speed, turn): every motor of a side gets the same call with
\* the same float, hence the same outputs.
drive_motors(speed, turn) ==
    LET sides == drive_sides(speed, turn) IN
    /\ \E l \in side_command(sides[1]) : left_motors' = [i \in 1 .. NumPerSide |-> l]
    /\ \E r \in side_command(sides[2]) : right_motors' = [i \in 1 .. NumPerSide |-> r]

\* The stick values of a frame and the arguments of drive.
Sticks == {-150, -100, -55, -10, 0, 9, 10, 100}
DriveArgs == {-100, -50, -1, 0, 1, 50, 100}

\* Robot.drive(speed, turn), called directly.
drive ==
    \E speed \in DriveArgs, turn \in DriveArgs :
        /\ drive_motors(speed, turn)
        /\ rcall' = [fn |-> "drive", a |-> speed, b |-> turn, c |-> 0, d |-> 0, out |-> 0]
        /\ UNCHANGED <<turretVars, histVars, motorVars, servoVars>>

\* Robot.update(data): data = {drive: {x, y}, turret: {x, y}}.  pan and tilt
\* are read from the frame and not used.
update ==
    \E x \in Sticks, y \in Sticks, tx \in -1 .. 1, ty \in -1 .. 1 :
        \E speed \in ramp_cubic(y, DEADZONE, MAX_VALUE),
           turn \in ramp_cubic(x, DEADZONE, MAX_VALUE) :
            /\ drive_motors(speed, turn)
            /\ rcall' = [fn |-> "update", a |-> x, b |-> y, c |-> tx, d |-> ty, out |-> 0]
            /\ UNCHANGED <<turretVars, histVars, motorVars, servoVars>>

\* The static methods ramp_cubic, ramp_quadratic and ramp_exponential called
\* with value = k * max_value / 10 and deadzone = j * max_value / 10.
MaxValues == {10, 100}
ShapeSteps == 12

ramp_outs(f, value, deadzone, max_value) ==
    CASE f = "ramp_cubic" -> ramp_cubic(value, deadzone, max_value)
      [] f = "ramp_quadratic" -> ramp_quadratic(value, deadzone, max_value)
      [] f = "ramp_exponential" -> ramp_exponential(value, deadzone, max_value)

ramp ==
    \E f \in {"ramp_cubic", "ramp_quadratic", "ramp_exponential"},
       mx \in MaxValues, k \in -ShapeSteps .. ShapeSteps, j \in 0 .. 9 :
        LET value == k * (mx \div 10)
            deadzone == j * (mx \div 10)
        IN \E out \in ramp_outs(f, value, deadzone, mx) :
            /\ rcall' = [fn |-> f, a |-> value, b |-> deadzone, c |-> mx, d |-> 0,
                         out |-> out]
            /\ UNCHANGED <<left_motors, right_motors>>
            /\ UNCHANGED <<turretVars, histVars, motorVars, servoVars>>

\* Robot.__init__: every Motor.__init__ ends with stop().
RobotInit ==
    /\ left_motors = [i \in 1 .. NumPerSide |->
                        [op |-> "stop", in1 |-> 0, in2 |-> 0, speed |-> 0, duty |-> 0]]
    /\ right_motors = [i \in 1 .. NumPerSide |->
                        [op |-> "stop", in1 |-> 0, in2 |-> 0, speed |-> 0, duty |-> 0]]
    /\ rcall = [fn |-> "init", a |-> 0, b |-> 0, c |-> 0, d |-> 0, out |-> 0]

\* -------------------------------------------------------------------- servo
\* None, for _current_us, _current_angle and the arguments of calibrate.
NoValue == -1
\* self._period = 1000000 // freq, with freq = 50.
SERVO_PERIOD == 20000

\* Servo._us_to_duty
us_to_duty(us) == (us * 4095) \div SERVO_PERIOD

\* Servo._angle_to_us (angle and the window are not negative, so int() is
\* the floor; a quotient that is not an integer is at least 1/180 from one).
angle_to_us(angle, min_us, max_us) ==
    min_us + (angle * (max_us - min_us)) \div 180

\* Servo._us_to_angle, for min_us <= us and min_us < max_us.
us_to_angle_wrongspan(us, min_us, max_us) ==
    ((us - min_us) * 180) \div max_us

us_to_angle(us, min_us, max_us) ==
    ((us - min_us) * 180) \div (max_us - min_us)

\* What write_microseconds is given: below, inside and above the windows.
UsValues == {0, 499, 500, 501, 1000, 1400, 1500, 2000, 2499, 2500, 2501, 3000}
\* What write is given: every angle of 0 .. 180 and some outside.
Angles == -2 .. 182
\* What calibrate is given for min_us and for max_us.
CalValues == {NoValue, 500, 1400, 2500}

\* Servo.write_microseconds(us), with its argument recorded as call.
servo_write_microseconds(us, call) ==
    LET w == write_microseconds(us, s_min_us, s_max_us) IN
    /\ s_pwm' = us_to_duty(w) * 16
    /\ current_us' = w
    /\ current_angle' = us_to_angle(w, s_min_us, s_max_us)
    /\ s_call' = call
    /\ UNCHANGED <<s_min_us, s_max_us>>
    /\ UNCHANGED <<turretVars, histVars, motorVars, robotVars>>

\* Servo.write_microseconds(us), called directly.
servo_write_us ==
    \E us \in UsValues :
        servo_write_microseconds(us, [fn |-> "write_microseconds", arg |-> us, arg2 |-> 0])

\* Servo.write(angle)
servo_write ==
    \E angle \in Angles :
        LET a == IF angle < 0 THEN 0 ELSE IF angle > 180 THEN 180 ELSE angle IN
        servo_write_microseconds(angle_to_us(a, s_min_us, s_max_us),
                                 [fn |-> "write", arg |-> angle, arg2 |-> 0])

\* Servo.calibrate(min_us, max_us), for calls that leave min_us < max_us.
\* (_min_duty and _max_duty follow the window and are read nowhere.)
calibrate ==
    \E mn \in CalValues, mx \in CalValues :
        /\ s_min_us' = IF mn # NoValue THEN mn ELSE s_min_us
        /\ s_max_us' = IF mx # NoValue THEN mx ELSE s_max_us
        /\ s_min_us' < s_max_us'
        /\ s_call' = [fn |-> "calibrate", arg |-> mn, arg2 |-> mx]
        /\ UNCHANGED <<current_us, current_angle, s_pwm>>
        /\ UNCHANGED <<turretVars, histVars, motorVars, robotVars>>

\* Servo.__init__(pin): the default window, no position yet.
ServoInit ==
    /\ s_min_us = SERVO_MIN_US
    /\ s_max_us = SERVO_MAX_US
    /\ current_us = NoValue
    /\ current_angle = NoValue
    /\ s_pwm = 0
    /\ s_call = [fn |-> "init", arg |-> 0, arg2 |-> 0]

\* ----------------------------------------------------------- specifications
\* The turret next to the calls of the transport; the motors are the ones
\* Robot.__init__ builds: no standby pin, offset 0.
Init == TurretInit /\ MotorInit(FALSE, 0) /\ RobotInit /\ ServoInit

Next ==
    \/ Tick
    \/ ArmedWaitReturn
    \/ DwellDone
    \/ YieldDone
    \/ Arm
    \/ Disarm
    \/ Fire
    \/ Move

Spec == Init /\ [][Next]_vars

\* The turret under a fair scheduler: a task that is ready to run is resumed,
\* and the sleeps of the loop end.
SpecLive ==
    /\ Init /\ [][Next]_vars
    /\ WF_vars(Tick)
    /\ WF_vars(ArmedWaitReturn)
    /\ WF_vars(DwellDone)
    /\ WF_vars(YieldDone)

\* One motor, built with any offset and with or without a standby pin.
InitMotor ==
    /\ TurretInit /\ RobotInit /\ ServoInit
    /\ \E with_stby \in BOOLEAN, off \in 0 .. OffDen - 1 : MotorInit(with_stby, off)

NextMotor ==
    \/ forward
    \/ reverse
    \/ stop
    \/ brake

SpecMotor == InitMotor /\ [][NextMotor]_vars

\* The turret when actuator writes may raise.
NextFault ==
    \/ Next
    \/ TickFault
    \/ BackoffDone

SpecFault == Init /\ [][NextFault]_vars

\* The turret when actuator writes may raise and the task may be cancelled.
NextCancel ==
    \/ NextFault
    \/ Cancel

SpecCancel == Init /\ [][NextCancel]_vars

\* The robot: frames from the transport and direct calls of drive.
NextRobot ==
    \/ update
    \/ drive

SpecRobot == Init /\ [][NextRobot]_vars

\* The response shaper: calls of the three ramp functions.
NextShaper == ramp

SpecShaper == Init /\ [][NextShaper]_vars

\* One servo: writes and calibrations in any order.
NextServo ==
    \/ servo_write_us
    \/ servo_write
    \/ calibrate

SpecServo == Init /\ [][NextServo]_vars

\* --------------------------------------------------------------- properties
\* A step that is one iteration of the turret loop.
IsTick == pc = "eval" /\ pc' # "eval"
\* A step in which a FIRING body pulls the trigger.
IsShot == shots' # shots

\* C1: under every interleaving the ammo count is never negative, at most
\* INITIAL_AMMO FIRING bodies run, and a FIRING body runs only in a tick that
\* started with ammo >= 1.
C1_NeverFireWithoutAmmo ==
    /\ [](ammo >= 0 /\ shots <= INITIAL_AMMO)
    /\ [][IsShot => (IsTick /\ ammo >= 1 /\ state' = "FIRING"
                      /\ trigger_us' = TRIGGER_MIN)]_vars

C1_Witness == shots = INITIAL_AMMO /\ ammo = 0 /\ state = "FIRING"

\* C2: between two successive FIRING bodies a COOLDOWN body runs, i.e. a
\* FIRING body starts only when the last shot has been cooled down.
C2_CooldownBetweenShots == [][IsShot => cooled]_vars

\* C3: ammo changes only in a tick whose FIRING body completes, and there by
\* exactly -1; every other step leaves it as it is.
C3_AmmoOnlyByFiring ==
    [][ammo' = (IF IsTick /\ state' = "FIRING" /\ pc' = "dwell"
                THEN ammo - 1
                ELSE ammo)]_vars

C3_Witness == state = "FIRING" /\ pc = "dwell" /\ ammo = INITIAL_AMMO - 2

\* C4: once INITIAL_AMMO FIRING bodies have run, the next tick sets the state
\* to EMPTY with the flywheel at duty 0 whatever the latches are, and the
\* state stays EMPTY from then on.
C4_EmptyAfterLastShot ==
    /\ [](shots = INITIAL_AMMO =>
            \/ state = "FIRING" /\ pc \in {"dwell", "yield", "eval"}
            \/ state = "EMPTY" /\ fire_duty = 0)
    /\ [][shots = INITIAL_AMMO /\ IsTick => state' = "EMPTY" /\ fire_duty' = 0]_vars
    /\ [][state = "EMPTY" => state' = "EMPTY"]_vars

C4_Witness ==
    state = "EMPTY" /\ shots = INITIAL_AMMO /\ ~armed /\ firing /\ pc = "eval"

\* C5: from a fresh turret, with arm() called and disarm() never called, the
\* values of _state are STANDBY, SPIN_UP, READY, then - only once fire() has
\* set the latch - FIRING (ammo 4, trigger pulled), COOLDOWN (trigger
\* withdrawn), READY.
ExpectedSeq == <<"STANDBY", "SPIN_UP", "READY", "FIRING", "COOLDOWN", "READY">>

C5_FreshSequence ==
    /\ [](seq # <<>> =>
            /\ \A i \in 1 .. Min(Len(seq), Len(ExpectedSeq)) : seq[i] = ExpectedSeq[i]
            /\ Len(seq) <= 3 => ammo = INITIAL_AMMO /\ trigger_us = TRIGGER_MAX
            /\ Len(seq) = 4 => ammo = INITIAL_AMMO - 1 /\ trigger_us = TRIGGER_MIN
            /\ Len(seq) \in {5, 6} => ammo = INITIAL_AMMO - 1 /\ trigger_us = TRIGGER_MAX)
    /\ [][IsTick /\ Len(seq) = 3 /\ armed =>
            state' = (IF firing THEN "FIRING" ELSE "READY")]_vars

C5_Witness == seq = ExpectedSeq /\ state = "READY" /\ pc = "eval"

\* C6: with ammo >= 1, a tick that finds the armed latch clear in READY or
\* in FIRING sets the state to STANDBY (not FIRING, not COOLDOWN) and leaves
\* the shot as it is; disarm() itself changes neither ammo nor the trigger.
C6_DisarmPreempts ==
    /\ [][IsTick /\ ammo >= 1 /\ ~armed /\ state \in {"READY", "FIRING"} =>
            state' = "STANDBY" /\ UNCHANGED <<ammo, shots, trigger_us>>]_vars
    /\ [][armed /\ ~armed' => UNCHANGED <<state, ammo, shots, trigger_us, pc>>]_vars

C6_Witness ==
    state = "STANDBY" /\ trigger_us = TRIGGER_MIN /\ ammo = INITIAL_AMMO - 1 /\ ~armed

\* C7: a FIRING body runs only after a fire() call made while the state was
\* READY (since the previous FIRING body): fire() in any other state is a
\* no-op.
C7_FireOnlyFromReady == [][IsShot => req_ready]_vars

\* C8: an exception in a state body never ends the loop: the loop is never
\* stopped, a raising tick leads to the backoff, and the backoff leads back
\* to the next state evaluation with the turret as the fault left it.
C8_LoopSurvivesFaults ==
    /\ [](pc \in {"eval", "wait", "woken", "dwell", "yield", "backoff"})
    /\ [][pc = "backoff" /\ pc' # "backoff" =>
            pc' = "eval" /\ UNCHANGED <<state, armed, firing, ammo, trigger_us, fire_duty>>]_vars

C8_Witness == pc = "eval" /\ state = "COOLDOWN" /\ trigger_us = TRIGGER_MIN

\* C9: after every motor call the outputs are forward (1, 0), reverse (0, 1),
\* stop (0, 0, duty 0) or brake (1, 1, duty 0): a non-zero duty never comes
\* with equal direction pins.
C9_NoConflictingDirections ==
    /\ in1 = in2 => duty = 0
    /\ last_op.op = "forward" => in1 = 1 /\ in2 = 0
    /\ last_op.op = "reverse" => in1 = 0 /\ in2 = 1
    /\ last_op.op = "stop" => in1 = 0 /\ in2 = 0 /\ duty = 0
    /\ last_op.op = "brake" => in1 = 1 /\ in2 = 1 /\ duty = 0

C9_Witness == last_op.op = "reverse" /\ duty > 0 /\ in1 = 0 /\ in2 = 1

\* C10: forward(m) and reverse(m) leave the duty that the call with m clamped
\* to 0 .. SPEED_MAX leaves, for every m and every offset, and the duty is
\* within 0 .. PWM_MAX.
Clamp(m) == IF m < 0 THEN 0 ELSE IF m > SPEED_MAX THEN SPEED_MAX ELSE m

C10_MagnitudeClamped ==
    /\ duty \in 0 .. PWM_MAX
    /\ last_op.op \in {"forward", "reverse"} =>
          /\ duty = set_speed(Clamp(last_op.speed), offset)
          /\ last_op.speed >= SPEED_MAX => 
                duty = (PWM_MAX * (OffDen - offset)) \div OffDen
          /\ last_op.speed <= 0 => duty = 0

C10_Witness ==
    last_op = [op |-> "forward", speed |-> 2000] /\ offset = 0 /\ duty = PWM_MAX

\* C11: the outputs of a motor after a call depend on the call alone: they are
\* the outputs the same call leaves on a freshly constructed motor (whose
\* standby pin, when there is one, is low after the stop() of __init__).
FreshOutputs(o) ==
    CASE o.op = "forward" -> <<1, 0, set_speed(o.speed, offset), IF has_stby THEN 1 ELSE 0>>
      [] o.op = "reverse" -> <<0, 1, set_speed(o.speed, offset), IF has_stby THEN 1 ELSE 0>>
      [] o.op = "stop" -> <<0, 0, 0, 0>>
      [] o.op = "brake" -> <<1, 1, 0, 0>>

C11_CallSupersedes == <<in1, in2, duty, stby>> = FreshOutputs(last_op)

\* C12: after update(frame) the pan and tilt servos are where
\* move(turret.x, turret.y) puts them.
C12_UpdateMovesTurret ==
    rcall.fn = "update" =>
        /\ pan_us = write_microseconds(map_range(rcall.c, -1, 1, PAN_MIN, PAN_MAX),
                                       SERVO_MIN_US, SERVO_MAX_US)
        /\ tilt_us = write_microseconds(map_range(rcall.d, -1, 1, TILT_MIN, TILT_MAX),
                                        SERVO_MIN_US, SERVO_MAX_US)

\* The signed value a motor was last commanded, in hundredths.
Signed(m) ==
    IF m.op = "forward" THEN m.speed ELSE IF m.op = "reverse" THEN -m.speed ELSE 0

\* The scale of speed and of turn in drive: 100 -> 1023 and 100 -> 511.
SPEED_SCALE == 1023
TURN_SCALE == 511

\* C13 as stated: after drive(speed, turn) the left side is commanded
\* scale(speed + turn) and the right side scale(speed - turn), with the one
\* scale 100 -> 1023 for both.
C13_EqualWeightMix ==
    rcall.fn = "drive" =>
        \A i \in 1 .. NumPerSide :
            /\ Signed(left_motors[i]) = SPEED_SCALE * (rcall.a + rcall.b)
            /\ Signed(right_motors[i]) = SPEED_SCALE * (rcall.a - rcall.b)

\* C13 as amended: speed and turn are rescaled separately, speed by
\* 100 -> 1023 and turn by 100 -> 511, and then summed: the left side is
\* commanded scale_s(speed) + scale_t(turn), the right side
\* scale_s(speed) - scale_t(turn).
C13_WeightedMix ==
    rcall.fn = "drive" =>
        \A i \in 1 .. NumPerSide :
            /\ Signed(left_motors[i]) = SPEED_SCALE * rcall.a + TURN_SCALE * rcall.b
            /\ Signed(right_motors[i]) = SPEED_SCALE * rcall.a - TURN_SCALE * rcall.b

C13_Witness ==
    /\ rcall.fn = "drive" /\ rcall.a = 50 /\ rcall.b = -100
    /\ left_motors[1].op = "forward" /\ left_motors[1].speed = 50
    /\ right_motors[1].op = "forward" /\ right_motors[1].speed = 102250

\* C14: all motors of one side always show the same command, and after
\* drive(speed, 0) both sides show the same one: forward, reverse or stop by
\* the sign of speed, with the scaled speed as magnitude.
C14_ZeroTurnSymmetric ==
    /\ \A i \in 1 .. NumPerSide :
          left_motors[i] = left_motors[1] /\ right_motors[i] = right_motors[1]
    /\ rcall.fn = "drive" /\ rcall.b = 0 =>
          /\ left_motors = right_motors
          /\ left_motors[1].op = (IF rcall.a > 0 THEN "forward"
                                  ELSE IF rcall.a < 0 THEN "reverse" ELSE "stop")
          /\ left_motors[1].speed = SPEED_SCALE * Abs(rcall.a)

C14_Witness ==
    /\ rcall.fn = "drive" /\ rcall.a = -50 /\ rcall.b = 0
    /\ right_motors[NumPerSide].op = "reverse"
    /\ right_motors[NumPerSide].speed = 51150

RampNames == {"ramp_cubic", "ramp_quadratic", "ramp_exponential"}

\* C15: a value inside the deadzone, |v| < dz, gives exactly 0 with each of
\* the three ramps.
C15_TrueDeadzone ==
    rcall.fn \in RampNames /\ Abs(rcall.a) < rcall.b => rcall.out = 0

C15_Witness ==
    rcall.fn = "ramp_cubic" /\ rcall.a = -8 /\ rcall.b = 9 /\ rcall.c = 10 /\ rcall.out = 0

\* C16: for v in [-max, max] and 0 <= dz < max the output of each ramp is in
\* [-max, max] and has the sign of v or is 0.
C16_NoOvershoot ==
    rcall.fn \in RampNames /\ Abs(rcall.a) <= rcall.c /\ rcall.b < rcall.c =>
        /\ rcall.out \in -rcall.c .. rcall.c
        /\ rcall.a > 0 => rcall.out >= 0
        /\ rcall.a < 0 => rcall.out <= 0
        /\ rcall.a = 0 => rcall.out = 0

C16_Witness ==
    /\ rcall.fn = "ramp_quadratic" /\ rcall.a = -100 /\ rcall.b = 50 /\ rcall.c = 100
    /\ rcall.out = -100

\* C17: after write_microseconds(us) or write(angle), whatever calibrations
\* came before, _current_us is inside the window now set, and it is us when
\* us is inside the window.
C17_WriteClamped ==
    s_call.fn \in {"write", "write_microseconds"} =>
        /\ current_us \in s_min_us .. s_max_us
        /\ s_call.fn = "write_microseconds" /\ s_call.arg \in s_min_us .. s_max_us =>
              current_us = s_call.arg

C17_Witness ==
    /\ s_call = [fn |-> "write_microseconds", arg |-> 3000, arg2 |-> 0]
    /\ s_min_us = 500 /\ s_max_us = 1400 /\ current_us = 1400

\* C18: with the default window, write(angle) for an angle of 0 .. 180 leaves
\* a _current_angle that differs from angle by at most 1.
C18_AngleRoundTrip ==
    /\ s_call.fn = "write" /\ s_call.arg \in 0 .. 180
    /\ s_min_us = SERVO_MIN_US /\ s_max_us = SERVO_MAX_US
    => Abs(current_angle - s_call.arg) <= 1

C18_Witness ==
    /\ s_call = [fn |-> "write", arg |-> 1, arg2 |-> 0]
    /\ s_min_us = SERVO_MIN_US /\ s_max_us = SERVO_MAX_US
    /\ current_us = 511 /\ current_angle = 0

\* C19: every tick decides the state by the priority ammo exhaustion >
\* disarm > state-specific transition, and the decision never fails.
TransitionTable(s, am, ar, fr) ==
    IF am < 1 THEN "EMPTY"
    ELSE IF ~ar THEN "STANDBY"
    ELSE CASE s = "STANDBY" -> "SPIN_UP"
           [] s = "SPIN_UP" -> "READY"
           [] s = "READY" -> IF fr THEN "FIRING" ELSE "READY"
           [] s = "FIRING" -> "COOLDOWN"
           [] s = "COOLDOWN" -> "READY"
           [] OTHER -> "none"

C19_TransitionPriority ==
    /\ [](state \in TurretStates /\ pc # "backoff")
    /\ [][IsTick => state' = TransitionTable(state, ammo, armed, firing)]_vars
    /\ [][state' # state => IsTick]_vars

C19_Witness == state = "EMPTY" /\ ~armed /\ pc = "yield" /\ seq = <<>>

\* C20: the fire latch is set by fire() alone and cleared by a FIRING body
\* alone; the armed latch is set by arm() alone and cleared by disarm()
\* alone (a step of the loop changes pc or the state, arm() and disarm() and
\* fire() leave the state, the ammo and the actuators as they are).
C20_LatchOwnership ==
    /\ [][firing /\ ~firing' => IsTick /\ state' = "FIRING"]_vars
    /\ [][~firing /\ firing' => UNCHANGED <<state, armed, ammo, pc, trigger_us, fire_duty>>]_vars
    /\ [][armed /\ ~armed' => seq' = <<>> /\ UNCHANGED <<state, firing, ammo, pc>>]_vars
    /\ [][~armed /\ armed' => ~IsTick /\ UNCHANGED <<state, firing, ammo>>]_vars

C20_Witness == firing /\ ~armed /\ state = "STANDBY" /\ pc = "wait" /\ shots > 0

\* C21: state and ammo change in ticks of the loop only, so arm(), disarm(),
\* fire() and move() leave them as they are; a step that moves the pan or
\* tilt servo leaves state, ammo, both latches, the trigger servo, the
\* flywheel and the position of the loop unchanged; and no tick writes the
\* pan or tilt servo.
C21_StateOwnedByLoop ==
    /\ [][state' # state \/ ammo' # ammo => IsTick]_vars
    /\ [][pan_us' # pan_us \/ tilt_us' # tilt_us =>
            UNCHANGED <<state, ammo, armed, firing, trigger_us, fire_duty, pc>>]_vars
    /\ [][IsTick => UNCHANGED <<pan_us, tilt_us>>]_vars

C21_Witness ==
    /\ state = "FIRING" /\ pc = "dwell" /\ firing /\ armed
    /\ pan_us = PAN_MAX /\ tilt_us = TILT_MIN

\* C22: the loop has stopped exactly when its task has been cancelled; the
\* step that delivers the cancellation changes neither state, ammo, the
\* latches nor any actuator output; and once the loop has stopped it stays
\* stopped, state, ammo, the trigger servo and the flywheel keep their values,
\* and the only steps left are calls of arm(), disarm(), fire() and move().
C22_CancellationStops ==
    /\ [](cancelled <=> pc = "stopped")
    /\ [][cancelled' /\ ~cancelled =>
            UNCHANGED <<state, ammo, armed, firing, fire_duty, trigger_us,
                        pan_us, tilt_us>>]_vars
    /\ [][pc = "stopped" =>
            /\ pc' = "stopped"
            /\ UNCHANGED <<state, ammo, fire_duty, trigger_us>>
            /\ (Arm \/ Disarm \/ Fire \/ Move)]_vars

C22_Witness ==
    /\ pc = "stopped" /\ cancelled /\ state = "FIRING" /\ armed
    /\ trigger_us = TRIGGER_MIN /\ fire_duty = SPIN_DUTY /\ ammo = INITIAL_AMMO - 1

\* C23: whenever the state is not FIRING the trigger servo's last commanded
\* pulse width is the withdrawn width TRIGGER_MAX.
C23_TriggerWithdrawn ==
    state # "FIRING" => trigger_us = TRIGGER_MAX

\* C24: at every suspension point of the loop after a tick the flywheel duty
\* is 0 when the state is STANDBY or EMPTY and SPIN_DUTY when it is SPIN_UP,
\* READY, FIRING or COOLDOWN; and the trigger is pulled only in a tick that
\* starts and ends with the flywheel at SPIN_DUTY.
C24_FlywheelFollowsState ==
    /\ [](pc \in {"wait", "woken", "dwell", "yield"} =>
            fire_duty = (IF state \in {"STANDBY", "EMPTY"} THEN 0 ELSE SPIN_DUTY))
    /\ [][IsShot => fire_duty = SPIN_DUTY /\ fire_duty' = SPIN_DUTY]_vars

C24_Witness ==
    /\ state = "COOLDOWN" /\ pc = "dwell" /\ fire_duty = SPIN_DUTY
    /\ trigger_us = TRIGGER_MAX /\ shots = 1

\* C25: a fire request latched while ammo >= 1 and the armed latch is set
\* leads to a FIRING body that has cleared the request, unless the armed
\* latch is cleared first; every FIRING body takes a set request, clears it
\* and decrements ammo; and the loop waits only in STANDBY with the armed
\* latch clear, every other suspension leading back to the top of the loop
\* and from there to the next tick.
C25_FireRequestServed ==
    /\ (firing /\ armed /\ ammo >= 1)
          ~> (~armed \/ (state = "FIRING" /\ pc = "dwell" /\ ~firing))
    /\ [][IsShot => firing /\ ~firing' /\ ammo' = ammo - 1 /\ state' = "FIRING"]_vars
    /\ [](pc = "wait" => state = "STANDBY" /\ ~armed)
    /\ (pc \in {"woken", "dwell", "yield"}) ~> (pc = "eval")
    /\ (pc = "eval") ~> (pc # "eval")

C25_Witness ==
    /\ state = "FIRING" /\ pc = "dwell" /\ ~firing /\ armed
    /\ shots = 2 /\ ammo = INITIAL_AMMO - 2 /\ ~cooled

====
